---- MODULE Spec2Model ----
(***************************************************************************)
(* State-machine model of amazon_transcribe/client.py:                     *)
(* TranscribeStreamingClient / TranscribeMedicalStreamingClient            *)
(* .start_stream_transcription (session establishment), _create_audio_     *)
(* stream and _extract_signature, together with the AudioStream producer   *)
(* the client hands back.  Text is modelled as sequences of one-character  *)
(* strings and bytes as integers 0..255, so that re.split and unhexlify    *)
(* are computed, not assumed.                                              *)
(***************************************************************************)
EXTENDS Integers, Sequences, FiniteSets, TLC

\* ------------------------------------------------------------------ bounds
\* Largest number of send()/close() calls made on one AudioStream.
MaxCalls == 3
\* Longest text tail drawn after the prefix when _extract_signature is
\* exercised on its own (SpecExtract).
MaxTail == 3
\* Largest number of inbound frames the transport receives in one session.
MaxInbound == 3

\* ------------------------------------------------------------------- text
None == "None"

\* An object that may be absent is a set with at most one element.
The(S) == CHOOSE x \in S : TRUE

\* The separator of re.split("Signature=", auth)  (client.py:196)
SignatureMarker == <<"S","i","g","n","a","t","u","r","e","=">>

HexDigits == <<"0","1","2","3","4","5","6","7","8","9","a","b","c","d","e","f">>
UpperHexDigits == <<"0","1","2","3","4","5","6","7","8","9","A","B","C","D","E","F">>

IsHexChar(c) == \E i \in 1..16 : HexDigits[i] = c \/ UpperHexDigits[i] = c

\* Value of one hexadecimal digit (either case), as binascii.unhexlify reads it.
HexVal(c) == (CHOOSE i \in 1..16 : HexDigits[i] = c \/ UpperHexDigits[i] = c) - 1

\* One byte from its two digits: high nibble first.
HexPairToByte(h, l) == 16 * HexVal(h) + HexVal(l)

\* binascii.unhexlify: raises binascii.Error on an odd number of digits or a
\* non-hexadecimal character, otherwise yields Len(s) \div 2 bytes.
unhexlify(s) ==
  IF Len(s) % 2 = 1 \/ \E i \in 1..Len(s) : ~IsHexChar(s[i])
  THEN [ok |-> FALSE, bytes |-> <<>>]
  ELSE [ok |-> TRUE,
        bytes |-> [i \in 1..(Len(s) \div 2) |-> HexPairToByte(s[2*i - 1], s[2*i])]]

\* binascii.hexlify (lower case), the encoding a SigV4 signer uses for the
\* Signature= part of the Authorization value.
hexlify(bs) ==
  [i \in 1..(2 * Len(bs)) |->
     IF i % 2 = 1 THEN HexDigits[(bs[(i + 1) \div 2] \div 16) + 1]
                  ELSE HexDigits[(bs[i \div 2] % 16) + 1]]

\* Does pat occur in s at position i ?
MatchAt(pat, s, i) ==
  /\ i >= 1
  /\ i + Len(pat) - 1 <= Len(s)
  /\ SubSeq(s, i, i + Len(pat) - 1) = pat

\* re.split(pat, s) for a literal, non-empty pattern: the pieces between the
\* leftmost non-overlapping occurrences, scanning left to right.
RECURSIVE re_split(_, _)
re_split(pat, s) ==
  IF \E i \in 1..Len(s) : MatchAt(pat, s, i)
  THEN LET i == CHOOSE k \in 1..Len(s) :
                  /\ MatchAt(pat, s, k)
                  /\ \A j \in 1..(k - 1) : ~MatchAt(pat, s, j)
       IN <<SubSeq(s, 1, i - 1)>> \o re_split(pat, SubSeq(s, i + Len(pat), Len(s)))
  ELSE <<s>>

\* headers.get(name, default)
HeadersGet(headers, name, default) ==
  IF name \in DOMAIN headers THEN headers[name] ELSE default

\* _extract_signature with the first piece after the marker taken instead of
\* the last one (index 1 of the split where there is one).
extract_signature_first(signed_request) ==
  LET auth   == HeadersGet(signed_request.headers, "Authorization", <<>>)
      pieces == re_split(SignatureMarker, auth)
  IN unhexlify(IF Len(pieces) >= 2 THEN pieces[2] ELSE pieces[1])

\* TranscribeStreamingClient._extract_signature  (client.py:194-197)
extract_signature(signed_request) ==
  LET auth   == HeadersGet(signed_request.headers, "Authorization", <<>>)
      pieces == re_split(SignatureMarker, auth)
  IN unhexlify(pieces[Len(pieces)])

\* ------------------------------------------------------------ environment
Clients == {"standard", "medical"}

\* Keyword arguments of start_stream_transcription that the claims mention:
\* the two flags the service documents as mutually exclusive, and whether
\* the values have the types the serializer accepts.
CallArgs ==
  [show_speaker_label : BOOLEAN,
   enable_channel_identification : BOOLEAN,
   well_typed : BOOLEAN]

\* Credential snapshots a resolver can hand out.  The access key id is the
\* caller's text (the resolver is injectable), so it may itself contain the
\* text "Signature=".
AccessKeyPlain == <<"A","K","I","D">>
AccessKeyOdd == <<"S","i","g","n","a","t","u","r","e","=","a","b">>
CredSnapshots ==
  [access_key : {AccessKeyPlain, AccessKeyOdd}, secret : {"k1"}, expired : {FALSE}]
    \cup {[access_key |-> AccessKeyPlain, secret |-> "k1", expired |-> TRUE]}

\* Signatures a SigV4 signer can produce for the handshake: byte strings of
\* one fixed length (de ad be ef of the end-to-end scenario, and another).
SeedSignatures == {<<222, 173, 190, 239>>, <<0, 255, 16, 10>>}

AuthScheme == <<"A","W","S","4"," ","C","r","e","d","e","n","t","i","a","l","=">>
AuthSep == <<","," ">>

\* Status codes the service may answer the handshake with.
Statuses == {100, 200, 204, 301, 399, 400, 403, 500}

\* Error codes carried in the body of an error response.
BadRequest == "BadRequestException"
ErrorCodes == {BadRequest, "InternalFailureException"}

\* The streaming body handle created by prepare() for a request.
BodyHandle == "body"
\* A body handle that is not the one of the request.
OtherHandle == "other-body"

\* ------------------------------------------------------------------ state
VARIABLES
  client,                        \* which client class the object is
  pc,                            \* position inside start_stream_transcription
  kwargs,                        \* arguments of the call
  transcribe_streaming_request,  \* the request shape built from them
  endpoint,
  request,                       \* the serialized, prepared request
  creds,
  signed_request,
  session,                       \* AwsCrtHttpSessionManager objects created
  response,                      \* what make_request was given / returned
  status_code,
  body_bytes,                    \* bytes returned by consume_body
  body_closed,                   \* the outbound body handle is closed
  error,                         \* exception raised by the call
  log,                           \* external operations of the call, in order
  audio_stream,                  \* the AudioStream object, once constructed
  result,                        \* the returned StartStreamTranscriptionEventStream
  in_flight,                     \* frame signed and not yet written
  frames,                        \* frames written to the outbound body
  calls,                         \* send()/close() calls made on the producer
  extracted,                     \* result of _extract_signature run on its own
  arrived,                       \* decoded frames the transport has received
  next_index,                    \* inbound frames the consumer has taken
  decoding,                      \* inbound frame taken and not yet delivered
  yielded,                       \* events the consumer has yielded
  consumer,                      \* state of the event sequence
  earlier,                       \* audio streams of earlier calls on this client
  other_run                      \* the finished call made on the client of the other class

consumerVars == <<arrived, next_index, decoding, yielded, consumer>>

vars == <<client, pc, kwargs, transcribe_streaming_request, endpoint, request,
          creds, signed_request, session, response, status_code, body_bytes,
          body_closed, error, log, audio_stream, result, in_flight, frames,
          calls, extracted, consumerVars, earlier, other_run>>

handshakeVars == <<transcribe_streaming_request, endpoint, request, creds,
                   signed_request, session, response, status_code, body_bytes,
                   body_closed, error, audio_stream, result>>

producerVars == <<in_flight, frames, calls>>

\* The event sequence before any frame has been delivered.
ConsumerOpen == [state |-> "open", error |-> None]

Init ==
  /\ client \in Clients
  /\ pc = "idle"
  /\ kwargs = None
  /\ transcribe_streaming_request = None
  /\ endpoint = None
  /\ request = None
  /\ creds = None
  /\ signed_request = None
  /\ session = 0
  /\ response = None
  /\ status_code = 0
  /\ body_bytes = None
  /\ body_closed = FALSE
  /\ error = {}
  /\ log = <<>>
  /\ audio_stream = {}
  /\ result = None
  /\ in_flight = {}
  /\ frames = <<>>
  /\ calls = <<>>
  /\ extracted = {}
  /\ arrived = <<>>
  /\ next_index = 0
  /\ decoding = {}
  /\ yielded = <<>>
  /\ consumer = ConsumerOpen
  /\ earlier = <<>>
  /\ other_run = {}

\* --------------------------------------------------------------- helpers
Raised(kind, code, st) == [kind |-> kind, code |-> code, status |-> st]

\* StartStreamTranscriptionRequest(...)  (client.py:133-144): the request
\* shape holds the arguments as given; the two flags are passed through.
StartStreamTranscriptionRequest(args) ==
  [shape |-> "StartStreamTranscriptionRequest",
   show_speaker_label |-> args.show_speaker_label,
   enable_channel_identification |-> args.enable_channel_identification,
   well_typed |-> args.well_typed,
   audio_type |-> None,
   specialty |-> None]

\* StartMedicalStreamTranscriptionRequest(..., audio_type=, specialty=)
\* (client.py:221-234)
StartMedicalStreamTranscriptionRequest(args) ==
  [shape |-> "StartMedicalStreamTranscriptionRequest",
   show_speaker_label |-> args.show_speaker_label,
   enable_channel_identification |-> args.enable_channel_identification,
   well_typed |-> args.well_typed,
   audio_type |-> "DICTATION",
   specialty |-> "PRIMARYCARE"]

\* serializer.serialize_start_stream_transcription_request(...).prepare():
\* a request for the endpoint carrying the shape's settings as headers and a
\* fresh, open streaming body.
serialize_start_stream_transcription_request(ep, shape, operation) ==
  [uri |-> ep,
   method |-> "POST",
   operation |-> operation,
   headers |-> [host |-> ep,
                speaker |-> shape.show_speaker_label,
                channel |-> shape.enable_channel_identification],
   body |-> BodyHandle]

\* The Authorization value of a signed request: scheme, credential, and the
\* signature in lower-case hexadecimal after "Signature=".
BuildAuthorization(access_key, sig) ==
  AuthScheme \o access_key \o AuthSep \o SignatureMarker \o hexlify(sig)

\* SigV4RequestSigner.sign(request, creds): the request with an
\* Authorization header added; uri, method and body handle are the request's.
sign(req, c, sig) ==
  [req EXCEPT !.headers =
     ("Authorization" :> BuildAuthorization(c.access_key, sig)) @@ req.headers]

\* What the service answers to a transmitted handshake.  A request that sets
\* both ShowSpeakerLabel and EnableChannelIdentification "returns a
\* BadRequestException" (client.py:127-129).
ServiceReplies(sent) ==
  IF sent.headers.speaker /\ sent.headers.channel
  THEN {[status |-> 400, code |-> BadRequest]}
  ELSE {[status |-> s, code |-> IF s >= 400 THEN c ELSE None] :
          s \in Statuses, c \in ErrorCodes}

\* response_parser.parse_exception(resolved_response, body_bytes): the typed
\* service error named by the error code in the drained body.
parse_exception(st, bytes) == Raised("ServiceError", bytes, st)

\* AudioStream(input_stream=, ..., initial_signature=, ...): the producer
\* starts open with the initial signature as its prior signature.
AudioStream(input_stream, initial_signature) ==
  [input_stream |-> input_stream,
   initial_signature |-> initial_signature,
   prior_signature |-> initial_signature,
   closed |-> FALSE]

\* _create_audio_stream bound to a body handle other than the request's.
create_audio_stream_other_body(sreq) ==
  LET initial_signature == extract_signature(sreq)
  IN IF ~initial_signature.ok THEN {}
     ELSE {AudioStream(OtherHandle, initial_signature.bytes)}

\* _create_audio_stream started from an empty signature instead of the
\* request's.
create_audio_stream_no_seed(sreq) ==
  LET initial_signature == extract_signature(sreq)
  IN IF ~initial_signature.ok THEN {}
     ELSE {AudioStream(sreq.body, <<>>)}

\* _create_audio_stream that carries on from the prior signature the client's
\* previous audio stream had reached.
create_audio_stream_resuming(sreq) ==
  LET initial_signature == extract_signature(sreq)
      made == AudioStream(sreq.body, initial_signature.bytes)
      before == IF earlier = <<>> THEN {} ELSE earlier[Len(earlier)]
  IN IF ~initial_signature.ok THEN {}
     ELSE {[made EXCEPT !.prior_signature =
              IF before = {} THEN made.prior_signature
                             ELSE The(before).prior_signature]}

\* TranscribeStreamingClient._create_audio_stream  (client.py:183-192);
\* the result is a set holding the stream, empty when unhexlify raises.
create_audio_stream(sreq) ==
  LET initial_signature == extract_signature(sreq)
  IN IF ~initial_signature.ok THEN {}
     ELSE {AudioStream(sreq.body, initial_signature.bytes)}

\* status_code >= 400  (client.py:166) with the comparison off by one.
IsErrorStatusStrict(st) == st > 400

\* status_code >= 400  (client.py:166, 257)
IsErrorStatus(st) == st >= 400

\* status_code != 200 written as a test for redirects and above.
IsUnexpectedStatusLoose(st) == st >= 300

\* status_code != 200  (client.py:171, 262)
IsUnexpectedStatus(st) == st # 200

\* -------------------------------------------- TranscribeStreamingClient: start_stream_transcription
\* Request construction that rejects the two flags set together, before
\* anything is awaited.
StartValidating ==
  /\ client = "standard"
  /\ pc = "idle"
  /\ \E args \in CallArgs :
       /\ kwargs' = args
       /\ transcribe_streaming_request' = StartStreamTranscriptionRequest(args)
       /\ IF args.show_speaker_label /\ args.enable_channel_identification
          THEN /\ error' = {Raised("ValidationError", None, 0)}
               /\ log' = <<"build_request">>
               /\ pc' = "raised"
          ELSE /\ log' = <<"build_request", "resolve_endpoint">>
               /\ pc' = "await_endpoint"
               /\ UNCHANGED error
  /\ UNCHANGED <<client, endpoint, request, creds, signed_request, session,
                 response, status_code, body_bytes, body_closed,
                 audio_stream, result, producerVars, extracted,
                 consumerVars, earlier, other_run>>

\* client.py:133-145: the request shape is built from the arguments as they
\* are and endpoint_resolver.resolve(region) is awaited.
Start ==
  /\ client = "standard"
  /\ pc = "idle"
  /\ \E args \in CallArgs :
       /\ kwargs' = args
       /\ transcribe_streaming_request' = StartStreamTranscriptionRequest(args)
  /\ log' = <<"build_request", "resolve_endpoint">>
  /\ pc' = "await_endpoint"
  /\ UNCHANGED <<client, endpoint, request, creds, signed_request, session,
                 response, status_code, body_bytes, body_closed, error,
                 audio_stream, result, producerVars, extracted,
                 consumerVars, earlier, other_run>>

\* The step after the endpoint with the credentials asked for before the
\* request is serialized.
EndpointResolvedCredentialsFirst ==
  /\ client = "standard"
  /\ pc = "await_endpoint"
  /\ endpoint' = "endpoint"
  /\ IF ~transcribe_streaming_request.well_typed
     THEN /\ error' = {Raised("ValidationError", None, 0)}
          /\ log' = log \o <<"get_credentials", "serialize">>
          /\ pc' = "raised"
          /\ UNCHANGED request
     ELSE /\ request' = serialize_start_stream_transcription_request(
                          endpoint', transcribe_streaming_request, "StartStreamTranscription")
          /\ log' = log \o <<"get_credentials", "serialize">>
          /\ pc' = "await_creds"
          /\ UNCHANGED error
  /\ UNCHANGED <<client, kwargs, transcribe_streaming_request, creds,
                 signed_request, session, response, status_code, body_bytes,
                 body_closed, audio_stream, result, producerVars, extracted,
                 consumerVars, earlier, other_run>>

\* client.py:145-151: the endpoint is back; the request is serialized and
\* prepared (the serializer rejects badly typed values with a validation
\* error) and credential_resolver.get_credentials() is awaited.
EndpointResolved ==
  /\ client = "standard"
  /\ pc = "await_endpoint"
  /\ endpoint' = "endpoint"
  /\ IF ~transcribe_streaming_request.well_typed
     THEN /\ error' = {Raised("ValidationError", None, 0)}
          /\ log' = log \o <<"serialize">>
          /\ pc' = "raised"
          /\ UNCHANGED request
     ELSE /\ request' = serialize_start_stream_transcription_request(
                          endpoint', transcribe_streaming_request, "StartStreamTranscription")
          /\ log' = log \o <<"serialize", "get_credentials">>
          /\ pc' = "await_creds"
          /\ UNCHANGED error
  /\ UNCHANGED <<client, kwargs, transcribe_streaming_request, creds,
                 signed_request, session, response, status_code, body_bytes,
                 body_closed, audio_stream, result, producerVars, extracted,
                 consumerVars, earlier, other_run>>

\* The step after the credentials with the session manager created before
\* the request is signed.
CredentialsResolvedSessionFirst ==
  /\ client = "standard"
  /\ pc = "await_creds"
  /\ \E c \in CredSnapshots :
       /\ creds' = c
       /\ session' = session + 1
       /\ IF c.expired
          THEN /\ error' = {Raised("CredentialError", None, 0)}
               /\ log' = log \o <<"open_session", "sign">>
               /\ pc' = "raised"
               /\ UNCHANGED <<signed_request, response>>
          ELSE /\ \E sig \in SeedSignatures :
                    signed_request' = sign(request, c, sig)
               /\ response' = [body |-> signed_request'.body,
                               headers |-> signed_request'.headers,
                               reply_body |-> None]
               /\ log' = log \o <<"open_session", "sign", "make_request">>
               /\ pc' = "await_response"
               /\ UNCHANGED error
  /\ UNCHANGED <<client, kwargs, transcribe_streaming_request, endpoint,
                 request, status_code, body_bytes, body_closed, audio_stream,
                 result, producerVars, extracted,
                 consumerVars, earlier, other_run>>

\* client.py:151-162: the credentials are back; the request is signed
\* (the signer refuses an expired snapshot), a session manager is created and
\* make_request(uri, method, headers, body) is awaited.
CredentialsResolved ==
  /\ client = "standard"
  /\ pc = "await_creds"
  /\ \E c \in CredSnapshots :
       /\ creds' = c
       /\ IF c.expired
          THEN /\ error' = {Raised("CredentialError", None, 0)}
               /\ log' = log \o <<"sign">>
               /\ pc' = "raised"
               /\ UNCHANGED <<signed_request, session, response>>
          ELSE /\ \E sig \in SeedSignatures :
                    signed_request' = sign(request, c, sig)
               /\ session' = session + 1
               /\ response' = [body |-> signed_request'.body,
                               headers |-> signed_request'.headers,
                               reply_body |-> None]
               /\ log' = log \o <<"sign", "open_session", "make_request">>
               /\ pc' = "await_response"
               /\ UNCHANGED error
  /\ UNCHANGED <<client, kwargs, transcribe_streaming_request, endpoint,
                 request, status_code, body_bytes, body_closed, audio_stream,
                 result, producerVars, extracted,
                 consumerVars, earlier, other_run>>

\* client.py:157-163: make_request returned the pending response;
\* response.resolve_response() is awaited.
RequestSent ==
  /\ client = "standard"
  /\ pc = "await_response"
  /\ log' = log \o <<"resolve_response">>
  /\ pc' = "await_headers"
  /\ UNCHANGED <<client, kwargs, handshakeVars, producerVars, extracted,
                 consumerVars, earlier, other_run>>

\* The error branch with the drain started while the body is still open.
ErrorPathDrainFirst ==
  /\ log' = log \o <<"consume_body">>
  /\ pc' = "await_body"
  /\ UNCHANGED <<body_closed, error, audio_stream, result>>

\* client.py:167-169: signed_request.body.close(), then
\* response.consume_body() is awaited.
ErrorPath ==
  /\ body_closed' = TRUE
  /\ log' = log \o <<"close_body", "consume_body">>
  /\ pc' = "await_body"
  /\ UNCHANGED <<error, audio_stream, result>>

\* The unexpected-status branch sending the handshake again.
UnexpectedStatusRetry(st) ==
  /\ log' = log \o <<"make_request">>
  /\ pc' = "await_response"
  /\ UNCHANGED <<body_closed, error, audio_stream, result>>

\* client.py:171-172: raise RuntimeError("Unexpected status code ...").
UnexpectedStatus(st) ==
  /\ error' = {Raised("RuntimeError", None, st)}
  /\ pc' = "raised"
  /\ UNCHANGED <<body_closed, log, audio_stream, result>>

\* client.py:174-181: the response is parsed, the audio stream is created
\* from the signed request and the event stream is returned.
SuccessPath ==
  LET made == create_audio_stream(signed_request)
  IN /\ log' = log \o <<"parse_response", "create_audio_stream">>
     /\ UNCHANGED body_closed
     /\ IF made = {}
        THEN /\ error' = {Raised("binascii.Error", None, 200)}
             /\ pc' = "raised"
             /\ UNCHANGED <<audio_stream, result>>
        ELSE /\ audio_stream' = made
             /\ result' = "StartStreamTranscriptionEventStream"
             /\ pc' = "returned"
             /\ UNCHANGED error

\* client.py:163-181: the response headers are back; the status code is
\* classified.
ResponseResolved ==
  /\ client = "standard"
  /\ pc = "await_headers"
  /\ \E reply \in ServiceReplies(response) :
       /\ status_code' = reply.status
       /\ response' = [response EXCEPT !.reply_body = reply.code]
       /\ IF IsErrorStatus(reply.status) THEN ErrorPath
          ELSE IF IsUnexpectedStatus(reply.status)
               THEN UnexpectedStatus(reply.status)
               ELSE SuccessPath
  /\ UNCHANGED <<client, kwargs, transcribe_streaming_request, endpoint,
                 request, creds, signed_request, session, body_bytes,
                 producerVars, extracted,
                 consumerVars, earlier, other_run>>

\* client.py:169-170: consume_body returned the error body, which the
\* transport delivers only once the request body is finished ("We need to
\* close before we can consume the body or this will hang"); the parsed
\* exception is raised.
BodyConsumed ==
  /\ client = "standard"
  /\ pc = "await_body"
  /\ body_closed
  /\ body_bytes' = response.reply_body
  /\ error' = {parse_exception(status_code, body_bytes')}
  /\ pc' = "raised"
  /\ UNCHANGED <<client, kwargs, transcribe_streaming_request, endpoint,
                 request, creds, signed_request, session, response,
                 status_code, body_closed, log, audio_stream, result,
                 producerVars, extracted,
                 consumerVars, earlier, other_run>>

\* -------------------------------------------- TranscribeMedicalStreamingClient: start_stream_transcription
\* client.py:221-235: the request shape is built from the arguments as they
\* are and endpoint_resolver.resolve(region) is awaited.
MedicalStart ==
  /\ client = "medical"
  /\ pc = "idle"
  /\ \E args \in CallArgs :
       /\ kwargs' = args
       /\ transcribe_streaming_request' = StartMedicalStreamTranscriptionRequest(args)
  /\ log' = <<"build_request", "resolve_endpoint">>
  /\ pc' = "await_endpoint"
  /\ UNCHANGED <<client, endpoint, request, creds, signed_request, session,
                 response, status_code, body_bytes, body_closed, error,
                 audio_stream, result, producerVars, extracted,
                 consumerVars, earlier, other_run>>

\* client.py:235-242: the endpoint is back; the request is serialized and
\* prepared (the serializer rejects badly typed values with a validation
\* error) and credential_resolver.get_credentials() is awaited.
MedicalEndpointResolved ==
  /\ client = "medical"
  /\ pc = "await_endpoint"
  /\ endpoint' = "endpoint"
  /\ IF ~transcribe_streaming_request.well_typed
     THEN /\ error' = {Raised("ValidationError", None, 0)}
          /\ log' = log \o <<"serialize">>
          /\ pc' = "raised"
          /\ UNCHANGED request
     ELSE /\ request' = serialize_start_stream_transcription_request(
                          endpoint', transcribe_streaming_request, "StartMedicalStreamTranscription")
          /\ log' = log \o <<"serialize", "get_credentials">>
          /\ pc' = "await_creds"
          /\ UNCHANGED error
  /\ UNCHANGED <<client, kwargs, transcribe_streaming_request, creds,
                 signed_request, session, response, status_code, body_bytes,
                 body_closed, audio_stream, result, producerVars, extracted,
                 consumerVars, earlier, other_run>>

\* client.py:242-253: the credentials are back; the request is signed
\* (the signer refuses an expired snapshot), a session manager is created and
\* make_request(uri, method, headers, body) is awaited.
MedicalCredentialsResolved ==
  /\ client = "medical"
  /\ pc = "await_creds"
  /\ \E c \in CredSnapshots :
       /\ creds' = c
       /\ IF c.expired
          THEN /\ error' = {Raised("CredentialError", None, 0)}
               /\ log' = log \o <<"sign">>
               /\ pc' = "raised"
               /\ UNCHANGED <<signed_request, session, response>>
          ELSE /\ \E sig \in SeedSignatures :
                    signed_request' = sign(request, c, sig)
               /\ session' = session + 1
               /\ response' = [body |-> signed_request'.body,
                               headers |-> signed_request'.headers,
                               reply_body |-> None]
               /\ log' = log \o <<"sign", "open_session", "make_request">>
               /\ pc' = "await_response"
               /\ UNCHANGED error
  /\ UNCHANGED <<client, kwargs, transcribe_streaming_request, endpoint,
                 request, status_code, body_bytes, body_closed, audio_stream,
                 result, producerVars, extracted,
                 consumerVars, earlier, other_run>>

\* client.py:248-254: make_request returned the pending response;
\* response.resolve_response() is awaited.
MedicalRequestSent ==
  /\ client = "medical"
  /\ pc = "await_response"
  /\ log' = log \o <<"resolve_response">>
  /\ pc' = "await_headers"
  /\ UNCHANGED <<client, kwargs, handshakeVars, producerVars, extracted,
                 consumerVars, earlier, other_run>>

\* client.py:258-260: signed_request.body.close(), then
\* response.consume_body() is awaited.
MedicalErrorPath ==
  /\ body_closed' = TRUE
  /\ log' = log \o <<"close_body", "consume_body">>
  /\ pc' = "await_body"
  /\ UNCHANGED <<error, audio_stream, result>>

\* The medical client's unexpected-status branch releasing the body handle
\* before it raises.
MedicalUnexpectedStatusClosing(st) ==
  /\ body_closed' = TRUE
  /\ log' = log \o <<"close_body">>
  /\ error' = {Raised("RuntimeError", None, st)}
  /\ pc' = "raised"
  /\ UNCHANGED <<audio_stream, result>>

\* client.py:262-263: raise RuntimeError("Unexpected status code ...").
MedicalUnexpectedStatus(st) ==
  /\ error' = {Raised("RuntimeError", None, st)}
  /\ pc' = "raised"
  /\ UNCHANGED <<body_closed, log, audio_stream, result>>

\* client.py:265-273: the response is parsed, the audio stream is created
\* from the signed request and the event stream is returned.
MedicalSuccessPath ==
  LET made == create_audio_stream(signed_request)
  IN /\ log' = log \o <<"parse_response", "create_audio_stream">>
     /\ UNCHANGED body_closed
     /\ IF made = {}
        THEN /\ error' = {Raised("binascii.Error", None, 200)}
             /\ pc' = "raised"
             /\ UNCHANGED <<audio_stream, result>>
        ELSE /\ audio_stream' = made
             /\ result' = "StartStreamTranscriptionEventStream"
             /\ pc' = "returned"
             /\ UNCHANGED error

\* client.py:254-273: the response headers are back; the status code is
\* classified.
MedicalResponseResolved ==
  /\ client = "medical"
  /\ pc = "await_headers"
  /\ \E reply \in ServiceReplies(response) :
       /\ status_code' = reply.status
       /\ response' = [response EXCEPT !.reply_body = reply.code]
       /\ IF IsErrorStatus(reply.status) THEN MedicalErrorPath
          ELSE IF IsUnexpectedStatus(reply.status)
               THEN MedicalUnexpectedStatus(reply.status)
               ELSE MedicalSuccessPath
  /\ UNCHANGED <<client, kwargs, transcribe_streaming_request, endpoint,
                 request, creds, signed_request, session, body_bytes,
                 producerVars, extracted,
                 consumerVars, earlier, other_run>>

\* client.py:260-261: consume_body returned the error body, which the
\* transport delivers only once the request body is finished ("We need to
\* close before we can consume the body or this will hang"); the parsed
\* exception is raised.
MedicalBodyConsumed ==
  /\ client = "medical"
  /\ pc = "await_body"
  /\ body_closed
  /\ body_bytes' = response.reply_body
  /\ error' = {parse_exception(status_code, body_bytes')}
  /\ pc' = "raised"
  /\ UNCHANGED <<client, kwargs, transcribe_streaming_request, endpoint,
                 request, creds, signed_request, session, response,
                 status_code, body_closed, log, audio_stream, result,
                 producerVars, extracted,
                 consumerVars, earlier, other_run>>


\* ----------------------------------------- failures of the awaited calls
\* endpoint_resolver.resolve raises  (client.py:145, 235)
EndpointFailed ==
  /\ pc = "await_endpoint"
  /\ error' = {Raised("EndpointError", None, 0)}
  /\ pc' = "raised"
  /\ UNCHANGED <<client, kwargs, transcribe_streaming_request, endpoint,
                 request, creds, signed_request, session, response,
                 status_code, body_bytes, body_closed, log, audio_stream,
                 result, producerVars, extracted,
                 consumerVars, earlier, other_run>>

\* credential_resolver.get_credentials raises  (client.py:151, 242)
CredentialsFailed ==
  /\ pc = "await_creds"
  /\ error' = {Raised("CredentialError", None, 0)}
  /\ pc' = "raised"
  /\ UNCHANGED <<client, kwargs, transcribe_streaming_request, endpoint,
                 request, creds, signed_request, session, response,
                 status_code, body_bytes, body_closed, log, audio_stream,
                 result, producerVars, extracted,
                 consumerVars, earlier, other_run>>

\* session.make_request raises  (client.py:157, 248)
RequestFailed ==
  /\ pc = "await_response"
  /\ error' = {Raised("TransportError", None, 0)}
  /\ pc' = "raised"
  /\ UNCHANGED <<client, kwargs, transcribe_streaming_request, endpoint,
                 request, creds, signed_request, session, response,
                 status_code, body_bytes, body_closed, log, audio_stream,
                 result, producerVars, extracted,
                 consumerVars, earlier, other_run>>

\* response.resolve_response raises  (client.py:163, 254)
ResponseFailed ==
  /\ pc = "await_headers"
  /\ error' = {Raised("TransportError", None, 0)}
  /\ pc' = "raised"
  /\ UNCHANGED <<client, kwargs, transcribe_streaming_request, endpoint,
                 request, creds, signed_request, session, response,
                 status_code, body_bytes, body_closed, log, audio_stream,
                 result, producerVars, extracted,
                 consumerVars, earlier, other_run>>

\* ------------------------------------------------ AudioStream (producer)
\* Audio buffers a caller sends: the empty buffer and b"more".
Payloads == {<<>>, <<109, 111, 114, 101>>}

\* The event signer's chunk signature: a function of the previous signature,
\* the key material and the payload that differs whenever one of them does
\* (the three are laid side by side between separators no byte equals).
ChunkSignature(prev, key, payload) ==
  prev \o <<-1>> \o (IF key = "k1" THEN <<1>> ELSE <<2>>) \o payload \o <<-2>>

\* Signing one message: the signature is computed from the prior signature,
\* which it then replaces, before the frame is handed to the transport.
sign_event(a, type, payload, key) ==
  LET sig == ChunkSignature(a.prior_signature, key, payload)
  IN [frame |-> [type |-> type, payload |-> payload, signature |-> sig,
                 prev |-> a.prior_signature, key |-> key],
      stream |-> [a EXCEPT !.prior_signature = sig]]

Call(op, payload, outcome) == [op |-> op, payload |-> payload, result |-> outcome]

\* send() that does not look at the closed mark.
SendIgnoringClosed ==
  /\ pc = "returned"
  /\ in_flight = {}
  /\ Len(calls) < MaxCalls
  /\ \E payload \in Payloads :
       LET signed == sign_event(The(audio_stream), "audio", payload, creds.secret)
       IN /\ in_flight' = {signed.frame}
          /\ audio_stream' = {signed.stream}
          /\ calls' = Append(calls, Call("send", payload, "pending"))
  /\ UNCHANGED <<client, pc, kwargs, transcribe_streaming_request, endpoint,
                 request, creds, signed_request, session, response,
                 status_code, body_bytes, body_closed, error, log, result,
                 frames, extracted,
                 consumerVars, earlier, other_run>>

\* send() that does not wait for the send before it to be transmitted.
SendWhileInFlight ==
  /\ pc = "returned"
  /\ Len(calls) < MaxCalls
  /\ \E payload \in Payloads :
       IF The(audio_stream).closed
       THEN /\ calls' = Append(calls, Call("send", payload, "StreamClosedError"))
            /\ UNCHANGED <<audio_stream, in_flight>>
       ELSE LET signed == sign_event(The(audio_stream), "audio", payload, creds.secret)
            IN /\ in_flight' = in_flight \cup {signed.frame}
               /\ audio_stream' = {signed.stream}
               /\ calls' = Append(calls, Call("send", payload, "pending"))
  /\ UNCHANGED <<client, pc, kwargs, transcribe_streaming_request, endpoint,
                 request, creds, signed_request, session, response,
                 status_code, body_bytes, body_closed, error, log, result,
                 frames, extracted, consumerVars, earlier, other_run>>

\* send(audio_bytes): fails with StreamClosedError once the producer is
\* terminal, otherwise frames and signs one audio chunk for transmission.
Send ==
  /\ pc = "returned"
  /\ in_flight = {}
  /\ Len(calls) < MaxCalls
  /\ \E payload \in Payloads :
       IF The(audio_stream).closed
       THEN /\ calls' = Append(calls, Call("send", payload, "StreamClosedError"))
            /\ UNCHANGED <<audio_stream, in_flight>>
       ELSE LET signed == sign_event(The(audio_stream), "audio", payload, creds.secret)
            IN /\ in_flight' = {signed.frame}
               /\ audio_stream' = {signed.stream}
               /\ calls' = Append(calls, Call("send", payload, "pending"))
  /\ UNCHANGED <<client, pc, kwargs, transcribe_streaming_request, endpoint,
                 request, creds, signed_request, session, response,
                 status_code, body_bytes, body_closed, error, log, result,
                 frames, extracted,
                 consumerVars, earlier, other_run>>

\* close(): signs the zero-length end-of-stream message and marks the
\* producer terminal; on a terminal producer it fails with StreamClosedError.
Close ==
  /\ pc = "returned"
  /\ in_flight = {}
  /\ Len(calls) < MaxCalls
  /\ IF The(audio_stream).closed
     THEN /\ calls' = Append(calls, Call("close", <<>>, "StreamClosedError"))
          /\ UNCHANGED <<audio_stream, in_flight>>
     ELSE LET signed == sign_event(The(audio_stream), "end", <<>>, creds.secret)
          IN /\ in_flight' = {signed.frame}
             /\ audio_stream' = {[signed.stream EXCEPT !.closed = TRUE]}
             /\ calls' = Append(calls, Call("close", <<>>, "pending"))
  /\ UNCHANGED <<client, pc, kwargs, transcribe_streaming_request, endpoint,
                 request, creds, signed_request, session, response,
                 status_code, body_bytes, body_closed, error, log, result,
                 frames, extracted,
                 consumerVars, earlier, other_run>>

\* The signed frame is written to the outbound body; the end-of-stream frame
\* also ends the body.  The pending call returns.
Transmit ==
  /\ pc = "returned"
  /\ in_flight # {}
  /\ frames' = Append(frames, The(in_flight))
  /\ in_flight' = {}
  /\ calls' = [calls EXCEPT ![Len(calls)].result = "ok"]
  /\ body_closed' = (body_closed \/ The(in_flight).type = "end")
  /\ UNCHANGED <<client, pc, kwargs, transcribe_streaming_request, endpoint,
                 request, creds, signed_request, session, response,
                 status_code, body_bytes, error, log, audio_stream, result,
                 extracted,
                 consumerVars, earlier, other_run>>

\* A refresh that also starts the chain again from the initial signature.
RefreshCredentialsResettingChain ==
  /\ pc = "returned"
  /\ creds.secret = "k1"
  /\ creds' = [creds EXCEPT !.secret = "k2"]
  /\ audio_stream' =
       {[a EXCEPT !.prior_signature = a.initial_signature] : a \in audio_stream}
  /\ UNCHANGED <<client, pc, kwargs, transcribe_streaming_request, endpoint,
                 request, signed_request, session, response, status_code,
                 body_bytes, body_closed, error, log, result,
                 producerVars, extracted, consumerVars, earlier, other_run>>

\* The credential resolver (credential_resolver=self._credential_resolver,
\* client.py:191) refreshes mid-stream: from now on it hands out a snapshot
\* with new key material.  The stream's own state is not touched.
RefreshCredentials ==
  /\ pc = "returned"
  /\ creds.secret = "k1"
  /\ creds' = [creds EXCEPT !.secret = "k2"]
  /\ UNCHANGED <<client, pc, kwargs, transcribe_streaming_request, endpoint,
                 request, signed_request, session, response, status_code,
                 body_bytes, body_closed, error, log, audio_stream, result,
                 producerVars, extracted, consumerVars, earlier, other_run>>

\* ---------------------------------------------------------- specification
Next ==
  \/ Start \/ EndpointResolved \/ CredentialsResolved \/ RequestSent
  \/ ResponseResolved \/ BodyConsumed
  \/ MedicalStart \/ MedicalEndpointResolved \/ MedicalCredentialsResolved
  \/ MedicalRequestSent \/ MedicalResponseResolved \/ MedicalBodyConsumed
  \/ EndpointFailed \/ CredentialsFailed \/ RequestFailed \/ ResponseFailed
  \/ Send \/ Close \/ Transmit
  \/ RefreshCredentials

Spec == Init /\ [][Next]_vars

\* ------------------------------------------------------------ properties
InLog(op) == \E i \in 1..Len(log) : log[i] = op

Count(op) == Cardinality({i \in 1..Len(log) : log[i] = op})

\* The text of s after the last occurrence of pat (all of s when there is none).
TextAfterLast(pat, s) ==
  LET at == {i \in 1..Len(s) : MatchAt(pat, s, i)}
  IN IF at = {} THEN s
     ELSE LET k == CHOOSE i \in at : \A j \in at : j <= i
          IN SubSeq(s, k + Len(pat), Len(s))

\* C1: on a status >= 400 the outbound body is closed strictly before the
\* response body is drained: every consume_body in the call's history has a
\* close_body before it, the body is closed for as long as the drain is
\* pending, and the call then fails with the service error parsed from the
\* drained bytes.
C1_CloseBeforeDrain ==
  /\ \A i \in 1..Len(log) :
       log[i] = "consume_body" => \E j \in 1..(i - 1) : log[j] = "close_body"
  /\ pc = "await_body" => body_closed
  /\ status_code >= 400 =>
       /\ pc \in {"await_body", "raised"}
       /\ InLog("consume_body")
       /\ audio_stream = {}
  /\ (status_code >= 400 /\ pc = "raised") =>
       /\ body_closed
       /\ body_bytes = response.reply_body
       /\ error = {Raised("ServiceError", body_bytes, status_code)}

C1_Witness ==
  /\ pc = "raised"
  /\ status_code = 400
  /\ body_closed
  /\ error = {Raised("ServiceError", BadRequest, 400)}
  /\ log[Len(log) - 1] = "close_body"
  /\ log[Len(log)] = "consume_body"

\* C2: on status 200 the call succeeds without closing the outbound body and
\* without draining the response body, and the producer of the returned
\* session is bound to the body handle that was given to make_request with
\* the signed request.
C2_SuccessKeepsBody ==
  status_code = 200 =>
    /\ pc = "returned"
    /\ result = "StartStreamTranscriptionEventStream"
    /\ error = {}
    /\ ~InLog("close_body")
    /\ ~InLog("consume_body")
    /\ body_bytes = None
    /\ body_closed => \E i \in 1..Len(frames) : frames[i].type = "end"
    /\ audio_stream # {}
    /\ \A a \in audio_stream :
         /\ a.input_stream = response.body
         /\ a.input_stream = signed_request.body
         /\ a.input_stream = request.body

C2_Witness ==
  /\ pc = "returned"
  /\ status_code = 200
  /\ calls = <<>>
  /\ ~body_closed
  /\ \A a \in audio_stream : a.input_stream = BodyHandle

\* The three outcomes of the handshake classification.
OutcomeSuccess ==
  /\ pc = "returned"
  /\ audio_stream # {}
  /\ error = {}

OutcomeServiceFailure ==
  /\ pc \in {"await_body", "raised"}
  /\ InLog("consume_body")
  /\ \A e \in error : e.kind = "ServiceError" /\ e.status = status_code

OutcomeUnexpectedStatus ==
  /\ pc = "raised"
  /\ error = {Raised("RuntimeError", None, status_code)}
  /\ ~InLog("consume_body")
  /\ Count("make_request") = 1

\* C3: the classification is total and exclusive: 200 gives success, every
\* status >= 400 a service failure, every other status the fatal
\* unexpected-status error, raised without the handshake being sent again;
\* exactly one of the three holds for each status.
C3_ClassificationTotal ==
  status_code # 0 =>
    /\ OutcomeSuccess <=> status_code = 200
    /\ OutcomeServiceFailure <=> status_code >= 400
    /\ OutcomeUnexpectedStatus <=> (status_code < 400 /\ status_code # 200)
    /\ Cardinality({o \in {"s", "f", "u"} :
                      \/ o = "s" /\ OutcomeSuccess
                      \/ o = "f" /\ OutcomeServiceFailure
                      \/ o = "u" /\ OutcomeUnexpectedStatus}) = 1

C3_Witness ==
  /\ status_code = 301
  /\ pc = "raised"
  /\ error = {Raised("RuntimeError", None, 301)}

\* C4: no AudioStream and no event stream exists in any state in which the
\* call has failed or has not yet classified the status as 200; the audio
\* stream is created only after status 200 has been seen.
C4_NoPartialSession ==
  /\ pc = "raised" => (audio_stream = {} /\ result = None /\ error # {})
  /\ error # {} => (audio_stream = {} /\ result = None)
  /\ audio_stream # {} =>
       /\ status_code = 200
       /\ InLog("resolve_response")
       /\ pc = "returned"
  /\ result # None => audio_stream # {}

C4_Witness ==
  /\ pc = "raised"
  /\ error = {Raised("TransportError", None, 0)}
  /\ InLog("make_request")
  /\ audio_stream = {}
  /\ result = None

\* C5: on status 200 the session is returned and the seed of its chain (the
\* initial and, before any chunk, prior signature of the audio stream) is the
\* byte string whose hexadecimal text follows the last "Signature=" of the
\* signed request's Authorization header.
C5_SeedFromAuthorization ==
  status_code = 200 =>
    /\ audio_stream # {}
    /\ \A a \in audio_stream :
         /\ hexlify(a.initial_signature) =
              TextAfterLast(SignatureMarker, signed_request.headers["Authorization"])
         /\ calls = <<>> => a.prior_signature = a.initial_signature

C5_Witness ==
  /\ pc = "returned"
  /\ creds.access_key = AccessKeyOdd
  /\ \A a \in audio_stream : a.initial_signature = <<222, 173, 190, 239>>
  /\ TextAfterLast(SignatureMarker, signed_request.headers["Authorization"])
       = <<"d","e","a","d","b","e","e","f">>

\* --------------------------------------- _extract_signature on its own
ExtractTailChars == {"d", "E", "g"}

ExtractPrefixes ==
  {<<>>,
   <<"X"," ">>,
   <<"X"," ">> \o SignatureMarker,
   SignatureMarker \o <<"a","b"," ">> \o SignatureMarker}

ExtractTails == UNION {[1..k -> ExtractTailChars] : k \in 0..MaxTail}

\* Authorization texts of every shape: with and without "Signature=", with
\* hexadecimal and other text after it, of several lengths, and the value of
\* a SigV4 signer.
ExtractTexts ==
  {p \o t : p \in ExtractPrefixes, t \in ExtractTails}
    \cup {BuildAuthorization(AccessKeyPlain, sig) : sig \in SeedSignatures}

ExtractRequest ==
  serialize_start_stream_transcription_request(
    "endpoint",
    StartStreamTranscriptionRequest(
      [show_speaker_label |-> FALSE, enable_channel_identification |-> FALSE,
       well_typed |-> TRUE]),
    "StartStreamTranscription")

\* Signed requests with any Authorization text, or with no such header.
InitExtract ==
  /\ client = "standard"
  /\ pc = "extract"
  /\ kwargs = None
  /\ transcribe_streaming_request = None
  /\ endpoint = "endpoint"
  /\ request = ExtractRequest
  /\ creds = None
  /\ \/ signed_request = ExtractRequest
     \/ \E text \in ExtractTexts :
          signed_request =
            [ExtractRequest EXCEPT
               !.headers = ("Authorization" :> text) @@ ExtractRequest.headers]
  /\ session = 0
  /\ response = None
  /\ status_code = 0
  /\ body_bytes = None
  /\ body_closed = FALSE
  /\ error = {}
  /\ log = <<>>
  /\ audio_stream = {}
  /\ result = None
  /\ in_flight = {}
  /\ frames = <<>>
  /\ calls = <<>>
  /\ extracted = {}
  /\ arrived = <<>>
  /\ next_index = 0
  /\ decoding = {}
  /\ yielded = <<>>
  /\ consumer = ConsumerOpen
  /\ earlier = <<>>
  /\ other_run = {}

\* initial_signature = self._extract_signature(signed_request)  (client.py:184)
ExtractSignature ==
  /\ pc = "extract"
  /\ extracted' = {extract_signature(signed_request)}
  /\ pc' = "extracted"
  /\ UNCHANGED <<client, kwargs, handshakeVars, log, producerVars,
                 consumerVars, earlier, other_run>>

NextExtract == ExtractSignature

SpecExtract == InitExtract /\ [][NextExtract]_vars

\* The length of the signature a SigV4 signer puts after "Signature=".
SeedLength == Len(CHOOSE sig \in SeedSignatures : TRUE)

BothFlags ==
  /\ pc # "idle"
  /\ pc \notin {"extract", "extracted"}
  /\ kwargs.show_speaker_label
  /\ kwargs.enable_channel_identification

C8_SingleTransmission ==
  /\ session <= 1
  /\ Count("open_session") <= 1
  /\ Count("make_request") <= 1
  /\ Count("sign") <= 1
  /\ Count("get_credentials") <= 1
  /\ Count("make_request") = session
  /\ pc = "raised" => ~ENABLED Next

C8_Witness ==
  /\ pc = "raised"
  /\ status_code = 500
  /\ session = 1
  /\ Count("make_request") = 1
  /\ Count("sign") = 1

\* The frames signed so far, in signing order.
Signed == frames \o (IF in_flight = {} THEN <<>> ELSE <<The(in_flight)>>)

\* C9: every send() issued after close() fails with StreamClosedError and
\* emits no frame; at most one end-of-stream frame is emitted and no audio
\* frame follows it; send(b""), close(), send(b"more") emits one zero-length
\* audio frame, then one end-of-stream frame, and the third call fails.
C9_ProducerTerminal ==
  /\ \A i \in 1..Len(calls) :
       (\E j \in 1..(i - 1) : calls[j].op = "close")
          => calls[i].result = "StreamClosedError"
  /\ Len(Signed) =
       Cardinality({i \in 1..Len(calls) : calls[i].result # "StreamClosedError"})
  /\ Cardinality({i \in 1..Len(Signed) : Signed[i].type = "end"}) <= 1
  /\ \A i \in 1..Len(Signed) : Signed[i].type = "end" => i = Len(Signed)
  /\ \A i \in 1..Len(Signed) : Signed[i].type = "end" => Signed[i].payload = <<>>
  /\ (/\ Len(calls) = 3
      /\ calls[1].op = "send" /\ calls[1].payload = <<>>
      /\ calls[2].op = "close"
      /\ calls[3].op = "send" /\ calls[3].payload = <<109, 111, 114, 101>>)
       => /\ calls[3].result = "StreamClosedError"
          /\ Len(frames) = 2
          /\ frames[1].type = "audio" /\ frames[1].payload = <<>>
          /\ frames[2].type = "end"

C9_Witness ==
  /\ Len(calls) = 3
  /\ calls[1] = Call("send", <<>>, "ok")
  /\ calls[2] = Call("close", <<>>, "ok")
  /\ calls[3] = Call("send", <<109, 111, 114, 101>>, "StreamClosedError")
  /\ Len(frames) = 2
  /\ in_flight = {}

\* C10: the chain is strictly sequential: the first chunk is signed from the
\* seed extracted from the signed handshake, chunk n from the signature of
\* chunk n-1, each signature is the chunk signature of its previous
\* signature, key and payload, and the prior signature already is the newest
\* signature while the newest chunk still waits to be transmitted.
C10_SequentialChain ==
  pc = "returned" =>
    /\ \A i \in 1..Len(Signed) :
         /\ Signed[i].prev =
              (IF i = 1 THEN unhexlify(TextAfterLast(SignatureMarker,
                                signed_request.headers["Authorization"])).bytes
                        ELSE Signed[i - 1].signature)
         /\ Signed[i].signature =
              ChunkSignature(Signed[i].prev, Signed[i].key, Signed[i].payload)
         /\ \A j \in 1..(i - 1) : Signed[j].signature # Signed[i].signature
    /\ \A a \in audio_stream :
         a.prior_signature =
           (IF Signed = <<>> THEN a.initial_signature
                             ELSE Signed[Len(Signed)].signature)

C10_Witness ==
  /\ pc = "returned"
  /\ Len(frames) = 2
  /\ in_flight # {}
  /\ \A f \in in_flight : f.prev = frames[2].signature /\ f.type = "audio"
  /\ frames[1].prev = <<222, 173, 190, 239>>

\* ---------------------------------------- event stream (consumer half)
\* Decoded inbound frames: transcript results (partial or final), an
\* exception frame with its error code, and the transport's end of stream.
InboundFrames ==
  {[kind |-> "transcript", value |-> "partial"],
   [kind |-> "transcript", value |-> "final"],
   [kind |-> "error", value |-> "InternalFailureException"],
   [kind |-> "end", value |-> None]}

\* The typed event decoded from a transcript frame.
TranscriptEvent(f) == [transcript |-> f.value]

\* The transport receives one more frame; nothing follows its end of stream.
Arrive ==
  /\ pc = "returned"
  /\ Len(arrived) < MaxInbound
  /\ \A i \in 1..Len(arrived) : arrived[i].kind # "end"
  /\ \E f \in InboundFrames : arrived' = Append(arrived, f)
  /\ UNCHANGED <<client, pc, kwargs, handshakeVars, log, producerVars,
                 extracted, next_index, decoding, yielded, consumer, earlier, other_run>>

\* A pull that takes the next frame whatever the state of the sequence.
PullNextIgnoringTermination ==
  /\ pc = "returned"
  /\ decoding = {}
  /\ next_index < Len(arrived)
  /\ next_index' = next_index + 1
  /\ decoding' = {arrived[next_index + 1]}
  /\ UNCHANGED <<client, pc, kwargs, handshakeVars, log, producerVars,
                 extracted, arrived, yielded, consumer, earlier, other_run>>

\* The caller asks for the next event: an open sequence with no decode
\* pending takes the next received frame; a sequence that has ended or
\* raised takes nothing more.
PullNext ==
  /\ pc = "returned"
  /\ decoding = {}
  /\ next_index < Len(arrived)
  /\ IF consumer.state # "open"
     THEN UNCHANGED <<next_index, decoding>>
     ELSE /\ next_index' = next_index + 1
          /\ decoding' = {arrived[next_index + 1]}
  /\ UNCHANGED <<client, pc, kwargs, handshakeVars, log, producerVars,
                 extracted, arrived, yielded, consumer, earlier, other_run>>

\* The taken frame is decoded and delivered: a transcript frame yields its
\* event, an exception frame raises the service error of its code, the end
\* of stream ends the sequence.
Deliver ==
  /\ pc = "returned"
  /\ decoding # {}
  /\ LET f == The(decoding)
     IN IF f.kind = "transcript"
        THEN /\ yielded' = Append(yielded, TranscriptEvent(f))
             /\ UNCHANGED consumer
        ELSE /\ consumer' = IF f.kind = "error"
                            THEN [state |-> "raised", error |-> f.value]
                            ELSE [state |-> "ended", error |-> None]
             /\ UNCHANGED yielded
  /\ decoding' = {}
  /\ UNCHANGED <<client, pc, kwargs, handshakeVars, log, producerVars,
                 extracted, arrived, next_index, earlier, other_run>>

Handshake ==
  \/ Start \/ EndpointResolved \/ CredentialsResolved \/ RequestSent
  \/ ResponseResolved \/ BodyConsumed
  \/ MedicalStart \/ MedicalEndpointResolved \/ MedicalCredentialsResolved
  \/ MedicalRequestSent \/ MedicalResponseResolved \/ MedicalBodyConsumed
  \/ EndpointFailed \/ CredentialsFailed \/ RequestFailed \/ ResponseFailed

NextConsumer == Handshake \/ Arrive \/ PullNext \/ Deliver

SpecConsumer == Init /\ [][NextConsumer]_vars

\* Inbound frames whose delivery to the caller is complete.
Delivered == next_index - Cardinality(decoding)

\* C11: the consumer yields the decoded transcript events in arrival order
\* until the end of stream or an exception frame is delivered; an exception
\* frame raises the service error of its code, the end of stream ends the
\* sequence, and after either nothing more is taken or yielded, whatever
\* frames the transport still receives.
C11_ConsumerSequence ==
  /\ Delivered <= Len(arrived)
  /\ \A i \in 1..(next_index - 1) : arrived[i].kind = "transcript"
  /\ LET n == Cardinality({i \in 1..Delivered : arrived[i].kind = "transcript"})
     IN /\ Len(yielded) = n
        /\ \A i \in 1..n : yielded[i] = [transcript |-> arrived[i].value]
  /\ consumer.state = "raised" <=>
       (Delivered >= 1 /\ arrived[Delivered].kind = "error")
  /\ consumer.state = "raised" => consumer.error = arrived[Delivered].value
  /\ consumer.state = "ended" <=>
       (Delivered >= 1 /\ arrived[Delivered].kind = "end")
  /\ consumer.state # "open" => (decoding = {} /\ next_index = Delivered)

C11_Witness ==
  /\ arrived = <<[kind |-> "transcript", value |-> "partial"],
                 [kind |-> "error", value |-> "InternalFailureException"],
                 [kind |-> "transcript", value |-> "final"]>>
  /\ yielded = <<[transcript |-> "partial"]>>
  /\ consumer = [state |-> "raised", error |-> "InternalFailureException"]
  /\ next_index = 2
  /\ decoding = {}

\* C12: a credential refresh changes the key material only: the chunk signed
\* first with the new key has the signature of the chunk signed last with
\* the old key as its previous signature, and once the resolver has
\* refreshed the prior signature still is the newest signature (the seed
\* when no chunk has been signed).
C12_RefreshKeepsChain ==
  /\ \A i \in 2..Len(Signed) :
       Signed[i].key # Signed[i - 1].key =>
         /\ Signed[i].prev = Signed[i - 1].signature
         /\ Signed[i].signature =
              ChunkSignature(Signed[i - 1].signature, Signed[i].key, Signed[i].payload)
  /\ (pc = "returned" /\ creds.secret = "k2") =>
       \A a \in audio_stream :
         /\ a.prior_signature =
              (IF Signed = <<>> THEN a.initial_signature
                                ELSE Signed[Len(Signed)].signature)
         /\ a.initial_signature = extract_signature(signed_request).bytes

C12_Witness ==
  /\ Len(frames) >= 2
  /\ frames[1].key = "k1"
  /\ frames[2].key = "k2"
  /\ frames[2].prev = frames[1].signature
  /\ frames[1].signature # frames[2].signature

\* ------------------------------------------------ the duplex session alone
\* The state in which start_stream_transcription of the standard client has
\* returned a session, for a handshake signed with sig.
ReturnedSession(sig) ==
  LET args  == [show_speaker_label |-> FALSE,
                enable_channel_identification |-> FALSE,
                well_typed |-> TRUE]
      shape == StartStreamTranscriptionRequest(args)
      req   == serialize_start_stream_transcription_request(
                 "endpoint", shape, "StartStreamTranscription")
      c     == [access_key |-> AccessKeyPlain, secret |-> "k1", expired |-> FALSE]
      sreq  == sign(req, c, sig)
  IN /\ client = "standard"
     /\ pc = "returned"
     /\ kwargs = args
     /\ transcribe_streaming_request = shape
     /\ endpoint = "endpoint"
     /\ request = req
     /\ creds = c
     /\ signed_request = sreq
     /\ session = 1
     /\ response = [body |-> sreq.body, headers |-> sreq.headers,
                    reply_body |-> None]
     /\ status_code = 200
     /\ body_bytes = None
     /\ body_closed = FALSE
     /\ error = {}
     /\ log = <<"build_request", "resolve_endpoint", "serialize",
                "get_credentials", "sign", "open_session", "make_request",
                "resolve_response", "parse_response", "create_audio_stream">>
     /\ audio_stream = create_audio_stream(sreq)
     /\ result = "StartStreamTranscriptionEventStream"
     /\ in_flight = {}
     /\ frames = <<>>
     /\ calls = <<>>
     /\ extracted = {}
     /\ arrived = <<>>
     /\ next_index = 0
     /\ decoding = {}
     /\ yielded = <<>>
     /\ consumer = ConsumerOpen
     /\ earlier = <<>>
     /\ other_run = {}

InitDuplex == \E sig \in SeedSignatures : ReturnedSession(sig)

NextDuplex ==
  \/ Send \/ Close \/ Transmit
  \/ Arrive \/ PullNext \/ Deliver

SpecDuplex == InitDuplex /\ [][NextDuplex]_vars

\* C13: under every interleaving of send()/close() calls and consumption
\* at most one send (one chunk signing) and at most one decode is in flight,
\* and neither half waits on the other: whether the consumer can take or
\* deliver a frame depends on the inbound side only, and whether a call on
\* the producer can start or be transmitted on the outbound side only.
C13_IndependentHalves ==
  /\ Cardinality(in_flight) <= 1
  /\ Cardinality({i \in 1..Len(calls) : calls[i].result = "pending"})
       = Cardinality(in_flight)
  /\ Cardinality(decoding) <= 1
  /\ (decoding = {} /\ next_index < Len(arrived)) => ENABLED PullNext
  /\ decoding # {} => ENABLED Deliver
  /\ (in_flight = {} /\ Len(calls) < MaxCalls) => (ENABLED Send /\ ENABLED Close)
  /\ in_flight # {} => ENABLED Transmit

C13_Witness ==
  /\ in_flight # {}
  /\ decoding # {}
  /\ Len(frames) >= 1
  /\ Len(yielded) >= 1

\* ------------------------------------------------- several calls, one client
\* The caller calls start_stream_transcription again on the same client
\* (a retry after a failure, or a further session): the new call starts with
\* fresh locals (client.py:133-155) while the client object, and with it the
\* event signer and credential resolver of __init__ (client.py:59-70), stays.
\* The audio stream of the call before is kept aside; one earlier call is
\* followed, which is what a comparison of two sessions needs.
NewCall ==
  /\ pc \in {"returned", "raised"}
  /\ in_flight = {}
  /\ earlier = <<>>
  /\ earlier' = Append(earlier, audio_stream)
  /\ pc' = "idle"
  /\ kwargs' = None
  /\ transcribe_streaming_request' = None
  /\ endpoint' = None
  /\ request' = None
  /\ creds' = None
  /\ signed_request' = None
  /\ session' = 0
  /\ response' = None
  /\ status_code' = 0
  /\ body_bytes' = None
  /\ body_closed' = FALSE
  /\ error' = {}
  /\ log' = <<>>
  /\ audio_stream' = {}
  /\ result' = None
  /\ frames' = <<>>
  /\ calls' = <<>>
  /\ UNCHANGED <<client, in_flight, extracted, consumerVars, other_run>>

NextSessions == Handshake \/ Send \/ Close \/ Transmit \/ NewCall

SpecSessions == Init /\ [][NextSessions]_vars

\* C14: every session start performs its own handshake and its chain starts
\* from the seed of that handshake: the audio stream of a call made after
\* an earlier one (failed or finished) has the signature of its own signed
\* request as initial signature, signs its first chunk from it, and at no
\* time before its first chunk holds the prior signature an earlier stream
\* had advanced to; the earlier stream keeps its own chain state.
C14_FreshChainPerSession ==
  \A a \in audio_stream :
    /\ Count("sign") = 1
    /\ Count("make_request") = 1
    /\ a.initial_signature = extract_signature(signed_request).bytes
    /\ Signed = <<>> => a.prior_signature = a.initial_signature
    /\ Signed # <<>> => Signed[1].prev = a.initial_signature
    /\ \A i \in 1..Len(earlier) : \A e \in earlier[i] :
         e.prior_signature # e.initial_signature =>
           /\ a.initial_signature # e.prior_signature
           /\ Signed = <<>> => a.prior_signature # e.prior_signature
           /\ Signed # <<>> => Signed[1].prev # e.prior_signature

C14_Witness ==
  /\ Len(earlier) = 1
  /\ earlier[1] # {}
  /\ \A e \in earlier[1] : e.prior_signature # e.initial_signature
  /\ pc = "returned"
  /\ Len(frames) >= 1
  /\ \A e \in earlier[1] : \A a \in audio_stream :
       a.initial_signature = e.initial_signature

\* ------------------------------------------------- the pipeline as a whole
\* The external operations of session establishment in the order of
\* client.py:133-163.
PipelineOrder ==
  <<"build_request", "resolve_endpoint", "serialize", "get_credentials",
    "sign", "open_session", "make_request", "resolve_response">>

\* The operations that follow the classification of the status
\* (client.py:165-181, 256-273).
AfterClassification ==
  {<<>>, <<"close_body">>, <<"close_body", "consume_body">>,
   <<"parse_response">>, <<"parse_response", "create_audio_stream">>}

IsPrefix(s, t) == Len(s) <= Len(t) /\ \A i \in 1..Len(s) : s[i] = t[i]

\* C15: session establishment is one linear pipeline: at every moment the
\* operations performed so far are an initial stretch of build the request,
\* resolve the endpoint, serialize, fetch credentials, sign, open the session
\* and transmit, await the response headers, followed only then by what the
\* classification of the status asks for; credentials are fetched at most
\* once and the request signed at most once, and a request that has been
\* transmitted had its credentials fetched exactly once and was signed exactly
\* once, both before the transmission.
C15_LinearPipeline ==
  LET n == Len(PipelineOrder)
      head == SubSeq(log, 1, IF Len(log) < n THEN Len(log) ELSE n)
      tail == SubSeq(log, n + 1, Len(log))
  IN /\ IsPrefix(head, PipelineOrder)
     /\ tail \in AfterClassification
     /\ Count("get_credentials") <= 1
     /\ Count("sign") <= 1
     /\ InLog("make_request") =>
          \E i, j, k \in 1..Len(log) :
            /\ i < j /\ j < k
            /\ log[i] = "get_credentials"
            /\ log[j] = "sign"
            /\ log[k] = "make_request"
     /\ status_code # 0 => IsPrefix(PipelineOrder, log)
     /\ pc = "returned" =>
          log = PipelineOrder \o <<"parse_response", "create_audio_stream">>

C15_Witness ==
  /\ pc = "returned"
  /\ Count("get_credentials") = 1
  /\ Count("sign") = 1
  /\ Len(log) = Len(PipelineOrder) + 2

\* C16: when credential resolution or request signing fails, the call ends
\* with that error at once: no session manager has been created, no request
\* has been transmitted, and nothing was done after the failing step.
C16_CredentialFailureBeforeTransport ==
  \A e \in error :
    e.kind = "CredentialError" =>
      /\ pc = "raised"
      /\ session = 0
      /\ ~InLog("open_session")
      /\ ~InLog("make_request")
      /\ ~InLog("resolve_response")
      /\ log # <<>> /\ log[Len(log)] \in {"get_credentials", "sign"}
      /\ ~body_closed
      /\ audio_stream = {}

C16_Witness ==
  /\ pc = "raised"
  /\ \E e \in error : e.kind = "CredentialError"
  /\ InLog("sign")
  /\ creds.expired

\* C17: whenever the call fails after the handshake request has been
\* transmitted (make_request returned and the response headers were awaited),
\* the outbound body handle has been closed by the time the error reaches the
\* caller, whichever path the failure took: status >= 400, a status below 400
\* other than 200, or a failure while awaiting the response headers.
C17_BodyClosedOnFailure ==
  (pc = "raised" /\ InLog("resolve_response")) => body_closed

\* ------------------------------------- the same call on the other client
\* What a call shows once it is over: its arguments, the values its
\* collaborators gave it, the operations it performed and how it ended.
Observation ==
  [client |-> client,
   kwargs |-> kwargs,
   transcribe_streaming_request |-> transcribe_streaming_request,
   request |-> request,
   creds |-> creds,
   signed_request |-> signed_request,
   session |-> session,
   response |-> response,
   status_code |-> status_code,
   body_closed |-> body_closed,
   error |-> error,
   log |-> log,
   audio_stream |-> audio_stream,
   pc |-> pc]

\* The caller holds a TranscribeStreamingClient and a
\* TranscribeMedicalStreamingClient (client.py:43, 200) and, a call on one of
\* them being over, calls start_stream_transcription on the other; what the
\* first call showed is kept for the comparison.
CallOther ==
  /\ pc \in {"returned", "raised"}
  /\ other_run = {}
  /\ other_run' = {Observation}
  /\ client' = IF client = "standard" THEN "medical" ELSE "standard"
  /\ pc' = "idle"
  /\ kwargs' = None
  /\ transcribe_streaming_request' = None
  /\ endpoint' = None
  /\ request' = None
  /\ creds' = None
  /\ signed_request' = None
  /\ session' = 0
  /\ response' = None
  /\ status_code' = 0
  /\ body_bytes' = None
  /\ body_closed' = FALSE
  /\ error' = {}
  /\ log' = <<>>
  /\ audio_stream' = {}
  /\ result' = None
  /\ UNCHANGED <<producerVars, extracted, consumerVars, earlier>>

NextTwin == Handshake \/ CallOther

SpecTwin == Init /\ [][NextTwin]_vars

\* The two calls were given the same arguments and both reached a response
\* status, with the same credentials, the same handshake signature and the
\* same answer of the service.
SameAnswers(a, b) ==
  /\ a.kwargs = b.kwargs
  /\ a.status_code # 0
  /\ a.status_code = b.status_code
  /\ a.creds = b.creds
  /\ a.signed_request.headers["Authorization"] =
       b.signed_request.headers["Authorization"]
  /\ a.response.reply_body = b.response.reply_body

\* The two calls were given the same arguments and ended before any
\* credentials were asked for, on the same failure.
SameEarlyFailure(a, b) ==
  /\ a.kwargs = b.kwargs
  /\ a.error = b.error
  /\ \E e \in a.error : e.kind \in {"ValidationError", "EndpointError"}

\* The request shapes hold the same settings; the medical one adds audio_type
\* and specialty.
ShapesDifferOnlyInKind(std, med) ==
  /\ std.shape = "StartStreamTranscriptionRequest"
  /\ med.shape = "StartMedicalStreamTranscriptionRequest"
  /\ std.show_speaker_label = med.show_speaker_label
  /\ std.enable_channel_identification = med.enable_channel_identification
  /\ std.well_typed = med.well_typed
  /\ std.audio_type = None /\ std.specialty = None
  /\ med.audio_type # None /\ med.specialty # None

\* C18: a call on the medical client and a call on the standard client that
\* are given the same arguments and the same answers perform the same
\* external operations in the same order and end the same way (returned or
\* raised, the same error, the body handle closed or open alike, the same
\* audio stream), whatever the response status; what differs is the request
\* shape, which for the medical client carries audio_type and specialty, and
\* the serializer, seen in the operation the serialized request names.
C18_MedicalMatchesStandard ==
  \A o \in other_run :
    LET std == IF client = "standard" THEN Observation ELSE o
        med == IF client = "standard" THEN o ELSE Observation
    IN pc \in {"returned", "raised"} =>
         /\ std.client = "standard" /\ med.client = "medical"
         /\ std.kwargs = med.kwargs =>
              ShapesDifferOnlyInKind(std.transcribe_streaming_request,
                                     med.transcribe_streaming_request)
         /\ (SameAnswers(std, med) \/ SameEarlyFailure(std, med)) =>
              /\ std.log = med.log
              /\ std.pc = med.pc
              /\ std.error = med.error
              /\ std.body_closed = med.body_closed
              /\ std.audio_stream = med.audio_stream
              /\ std.session = med.session
         /\ SameAnswers(std, med) =>
              /\ std.request.operation = "StartStreamTranscription"
              /\ med.request.operation = "StartMedicalStreamTranscription"
              /\ [std.request EXCEPT !.operation = None] =
                   [med.request EXCEPT !.operation = None]
              /\ [std.signed_request EXCEPT !.operation = None] =
                   [med.signed_request EXCEPT !.operation = None]

C18_Witness ==
  /\ client = "medical"
  /\ pc = "raised"
  /\ status_code = 301
  /\ \E o \in other_run :
       /\ o.client = "standard"
       /\ SameAnswers(o, Observation)

====
